---- MODULE Spec2Model ----
(***************************************************************************)
(* A model of cvec2 (src/cvec2.c, src/cvec2.h): one vec of elements of    *)
(* ElSize bytes.  The allocation is the sequence mem (one entry per        *)
(* element slot), data is the offset in slots of the first live element    *)
(* from the base of the allocation (NULL when there is none), and every    *)
(* size_t value is kept modulo 2^WordBits, every unsigned int value modulo *)
(* 2^UIntBits.                                                             *)
(*                                                                         *)
(* An access outside the allocation is undefined behaviour: the model      *)
(* records it in fault ("oob"), drops the stores that fall outside, reads  *)
(* the indeterminate value Junk from outside, and ends the behaviour       *)
(* there.  A call that never returns is recorded as fault = "hang".        *)
(***************************************************************************)
EXTENDS Integers, Sequences, FiniteSets, TLC

VARIABLES size, capacity, start, data, mem, ret, fault

vars == <<size, capacity, start, data, mem, ret, fault>>

---------------------------------------------------------------------------
(* Program constants and the widths of the build *)

VEC2_INITIAL_CAPACITY == 8

WordBits == 8

UIntBits == 5

ElSize == 4

NULL == -1

Junk == 0

Word == 2^WordBits

UInt == 2^UIntBits

(* Bounds of the model *)

MaxCap == 9

MaxRun == 2

MaxSize == 4

\* The code never looks into an element, so one marked value (2) among
\* plain ones (1) tells any two positions apart.
Vals == {1, 2}

---------------------------------------------------------------------------
(* Machine arithmetic *)

AddW(a, b) == (a + b) % Word

SubW(a, b) == (a - b + Word) % Word

MulW(a, b) == (a * b) % Word

ToUInt(a) == a % UInt

---------------------------------------------------------------------------
(* The allocation *)

\* realloc(ptr, n slots): the old contents up to the smaller size, the rest
\* indeterminate.
realloc(m, n) == [i \in 1..n |-> IF i <= Len(m) THEN m[i] ELSE Junk]

\* One slot read at allocation offset off.
Rd(m, off) == IF off >= 0 /\ off < Len(m) THEN m[off + 1] ELSE Junk

\* n slots starting at allocation offset off lie inside the allocation.
Inside(m, base, off, n) == n = 0 \/ (base # NULL /\ off >= 0 /\ off + n <= Len(m))

\* The size_t byte count n * el_size of a memmove or memcpy, in slots.
StoreCount(n) == MulW(n, ElSize) \div ElSize

\* The vec as one record; oob, hang, moved, allocs and frees are what the call
\* did.
\* _idx[0] is the scratch slot of the vec2_insert and vec2_assign macros, dead
\* once the macro has read it back: it is a field of the record (idx0) and no
\* variable of the state.
Vec == [size |-> size, capacity |-> capacity, idx0 |-> 0, start |-> start,
        data |-> data, mem |-> mem,
        oob |-> FALSE, hang |-> FALSE, moved |-> 0, allocs |-> 0, frees |-> 0]

\* VEC2_GET(vec_ptr, el_size, idx), in slots
VEC2_GET(v, idx) == v.data + idx

\* vec2_mem(vec_ptr, el_size), in slots
vec2_mem(v) == IF v.data = NULL THEN NULL ELSE v.data - v.start

\* memmove(VEC2_GET(dst), VEC2_GET(src), n slots) inside the vec
MemMove(v, dst, src, n) ==
    LET d == VEC2_GET(v, dst)
        s == VEC2_GET(v, src)
    IN [v EXCEPT
          !.mem = [i \in 1..Len(v.mem) |->
                     IF i - 1 >= d /\ i - 1 < d + n
                     THEN Rd(v.mem, s + (i - 1 - d)) ELSE v.mem[i]],
          !.oob = @ \/ ~Inside(v.mem, v.data, d, n) \/ ~Inside(v.mem, v.data, s, n),
          !.moved = @ + n]

\* memcpy(VEC2_GET(dst), val, n slots) from the caller's run val
MemStore(v, dst, val, n) ==
    LET d == VEC2_GET(v, dst)
    IN [v EXCEPT
          !.mem = [i \in 1..Len(v.mem) |->
                     IF i - 1 >= d /\ i - 1 < d + n
                     THEN val[i - d] ELSE v.mem[i]],
          !.oob = @ \/ ~Inside(v.mem, v.data, d, n)]

\* memcpy(out, VEC2_GET(src), n slots) to the caller's buffer
MemLoad(v, src, n) == [i \in 1..n |-> Rd(v.mem, VEC2_GET(v, src) + i - 1)]

\* The logical content: the size live elements from data on.
ContentOf(v) == MemLoad(v, 0, v.size)

Content == ContentOf(Vec)

---------------------------------------------------------------------------
(* _vec2_impl_valid *)

_vec2_impl_valid(v) ==
    (v.capacity = 0 /\ v.data = NULL) \/ v.size <= v.capacity

\* The result of a call: the return value and the vec it leaves.
Ret(ok, v) == [ok |-> ok, vec |-> v]

\* The allocator grants a request of n slots exactly when n <= M.
Grants(M, n) == n <= M

---------------------------------------------------------------------------
(* _vec2_reserve *)

\* A reserve that records the new capacity before it knows the allocator's
\* answer.
Mutant_reserve_records_early(v, additional, M) ==
    IF additional > SubW(v.capacity, v.size)
    THEN LET new_capacity == AddW(v.capacity, additional)
             alloc_size == MulW(new_capacity, ElSize)
         IN IF new_capacity < v.capacity THEN Ret(FALSE, v)
            ELSE IF alloc_size \div ElSize # new_capacity THEN Ret(FALSE, v)
            ELSE IF ~Grants(M, new_capacity)
                 THEN Ret(FALSE, [v EXCEPT !.capacity = new_capacity,
                                           !.allocs = @ + 1])
            ELSE Ret(TRUE, [v EXCEPT !.mem = realloc(v.mem, new_capacity),
                                     !.data = v.start,
                                     !.capacity = new_capacity,
                                     !.allocs = @ + 1])
    ELSE Ret(TRUE, v)

\* A reserve without the two overflow tests.
Mutant_reserve_unchecked(v, additional, M) ==
    IF additional > SubW(v.capacity, v.size)
    THEN LET new_capacity == AddW(v.capacity, additional)
         IN IF ~Grants(M, new_capacity)
            THEN Ret(FALSE, [v EXCEPT !.allocs = @ + 1])
            ELSE Ret(TRUE, [v EXCEPT !.mem = realloc(v.mem, new_capacity),
                                     !.data = v.start,
                                     !.capacity = new_capacity,
                                     !.allocs = @ + 1])
    ELSE Ret(TRUE, v)

\* A reserve that compares additional with the capacity, not with the room
\* the capacity leaves after the live elements.
Mutant_reserve_ignores_size(v, additional, M) ==
    IF additional > v.capacity
    THEN LET new_capacity == AddW(v.capacity, additional)
             alloc_size == MulW(new_capacity, ElSize)
         IN IF new_capacity < v.capacity THEN Ret(FALSE, v)
            ELSE IF alloc_size \div ElSize # new_capacity THEN Ret(FALSE, v)
            ELSE IF ~Grants(M, new_capacity)
                 THEN Ret(FALSE, [v EXCEPT !.allocs = @ + 1])
            ELSE Ret(TRUE, [v EXCEPT !.mem = realloc(v.mem, new_capacity),
                                     !.data = v.start,
                                     !.capacity = new_capacity,
                                     !.allocs = @ + 1])
    ELSE Ret(TRUE, v)

_vec2_reserve(v, additional, M) ==
    IF additional > SubW(v.capacity, v.size)
    THEN LET new_capacity == AddW(v.capacity, additional)
             alloc_size == MulW(new_capacity, ElSize)
         IN IF new_capacity < v.capacity THEN Ret(FALSE, v)
            ELSE IF alloc_size \div ElSize # new_capacity THEN Ret(FALSE, v)
            ELSE IF ~Grants(M, new_capacity)
                 THEN Ret(FALSE, [v EXCEPT !.allocs = @ + 1])
            ELSE Ret(TRUE, [v EXCEPT !.mem = realloc(v.mem, new_capacity),
                                     !.data = v.start,
                                     !.capacity = new_capacity,
                                     !.allocs = @ + 1])
    ELSE Ret(TRUE, v)

---------------------------------------------------------------------------
(* _vec2_create_hole *)

\* The value of addition that never leaves the sizing loop.
Diverges == -1

\* while (addition < len) { ... }: addition is an unsigned int, len a size_t.
\* The loop's only state is addition, so a run of more than UInt iterations
\* has repeated a value and never ends.
RECURSIVE GrowAddition(_, _, _)
GrowAddition(addition, len, fuel) ==
    IF ~(addition < len) THEN addition
    ELSE IF fuel = 0 THEN Diverges
    ELSE LET next_addition == ToUInt(ToUInt(addition * 2) + (addition \div 2))
         IN IF next_addition < addition
            THEN ToUInt(len)
            ELSE GrowAddition(next_addition, len, fuel - 1)

\* unsigned int addition = capacity ? (capacity >> 1) : VEC2_INITIAL_CAPACITY
FirstAddition(v) ==
    ToUInt(IF v.capacity # 0 THEN v.capacity \div 2 ELSE VEC2_INITIAL_CAPACITY)

\* while (!_vec2_reserve(vec_ptr, addition, el_size)) { ... }
RECURSIVE ReserveRetry(_, _, _, _)
ReserveRetry(v, addition, len, M) ==
    LET r == _vec2_reserve(v, addition, M)
    IN IF r.ok THEN r
       ELSE IF addition > len /\ (addition \div 2) < len
            THEN ReserveRetry(r.vec, ToUInt(len), len, M)
       ELSE IF (addition \div 2) < len THEN Ret(FALSE, r.vec)
       ELSE ReserveRetry(r.vec, addition \div 2, len, M)

\* if (vec2_size(vec_ptr) + len > vec2_capacity(vec_ptr)) { ... }
GrowForHole(v, len, M) ==
    IF AddW(v.size, len) > v.capacity
    THEN LET addition == GrowAddition(FirstAddition(v), len, UInt)
         IN IF addition = Diverges
            THEN Ret(FALSE, [v EXCEPT !.hang = TRUE])
            ELSE ReserveRetry(v, addition, len, M)
    ELSE Ret(TRUE, v)

\* size_t shift_back = ...
ShiftBack(v, idx, len) ==
    IF idx = v.size \/ len > v.start THEN v.start ELSE len

\* The second memmove: the slots after the hole, moved forward.
ShiftForward(v, idx, len, shift_back) ==
    MemMove(v, idx + len, idx + shift_back, StoreCount(len - shift_back))

\* A placement whose shift path moves start and data back and leaves the
\* prefix where it was.
Mutant_hole_shift_without_move(v, idx, len) ==
    IF v.size > 0
    THEN IF idx = 0 /\ v.start >= len
         THEN [v EXCEPT !.start = @ - len, !.data = @ - len]
         ELSE IF idx < v.size
                 \/ len > SubW(v.capacity, AddW(v.start, v.size))
         THEN LET shift_back == ShiftBack(v, idx, len)
                  v1 == [v EXCEPT !.start = @ - shift_back,
                                  !.data = @ - shift_back]
              IN IF idx < v.size /\ len > shift_back
                 THEN ShiftForward(v1, idx, len, shift_back)
                 ELSE v1
         ELSE v
    ELSE v

\* if (vec2_size(vec_ptr) > 0) { ... }
PlaceHole(v, idx, len) ==
    IF v.size > 0
    THEN IF idx = 0 /\ v.start >= len
         THEN [v EXCEPT !.start = @ - len, !.data = @ - len]
         ELSE IF idx < v.size
                 \/ len > SubW(v.capacity, AddW(v.start, v.size))
         THEN LET shift_back == ShiftBack(v, idx, len)
                  v1 == [v EXCEPT !.start = @ - shift_back,
                                  !.data = @ - shift_back]
                  v2 == MemMove(v1, 0, shift_back, StoreCount(idx))
              IN IF idx < v.size /\ len > shift_back
                 THEN ShiftForward(v2, idx, len, shift_back)
                 ELSE v2
         ELSE v
    ELSE v

_vec2_create_hole(v, idx, len, M) ==
    IF len <= 0 \/ idx > v.size \/ AddW(v.size, len) < v.size
    THEN Ret(FALSE, v)
    ELSE LET g == GrowForHole(v, len, M)
         IN IF ~g.ok THEN g ELSE Ret(TRUE, PlaceHole(g.vec, idx, len))

---------------------------------------------------------------------------
(* _vec2_remove; hasOut: opt_out_val is not NULL *)

\* Shift back len slots from idx + len to idx (size is already decreased).
CloseGap(v, idx, len) == MemMove(v, idx, idx + len, StoreCount(v.size - idx))

\* A remove without the start advancement: it closes every gap by a shift.
Mutant_remove_always_shifts(v, idx, len, hasOut) ==
    IF len > v.size \/ SubW(v.size, len) < idx
    THEN [ok |-> FALSE, vec |-> v, out |-> << >>]
    ELSE IF len # 0
    THEN LET o == IF hasOut THEN MemLoad(v, idx, StoreCount(len)) ELSE << >>
             v1 == [v EXCEPT !.size = @ - len]
             v2 == IF v1.size # 0 /\ idx < v1.size
                   THEN CloseGap(v1, idx, len)
                   ELSE v1
         IN [ok |-> TRUE, vec |-> v2, out |-> o]
    ELSE [ok |-> TRUE, vec |-> v, out |-> << >>]

\* A remove without the test of the size it leaves: a front removal advances
\* start even when it empties the vec.
Mutant_remove_advances_when_empty(v, idx, len, hasOut) ==
    IF len > v.size \/ SubW(v.size, len) < idx
    THEN [ok |-> FALSE, vec |-> v, out |-> << >>]
    ELSE IF len # 0
    THEN LET o == IF hasOut THEN MemLoad(v, idx, StoreCount(len)) ELSE << >>
             v1 == [v EXCEPT !.size = @ - len]
             v2 == IF idx = 0
                   THEN [v1 EXCEPT !.start = AddW(@, len), !.data = @ + len]
                   ELSE IF idx < v1.size
                   THEN CloseGap(v1, idx, len)
                   ELSE v1
         IN [ok |-> TRUE, vec |-> v2, out |-> o]
    ELSE [ok |-> TRUE, vec |-> v, out |-> << >>]

\* A remove without the test len > size: it trusts the index alone.
Mutant_remove_trusts_index(v, idx, len, hasOut) ==
    IF SubW(v.size, len) < idx
    THEN [ok |-> FALSE, vec |-> v, out |-> << >>]
    ELSE IF len # 0
    THEN LET o == IF hasOut THEN MemLoad(v, idx, StoreCount(len)) ELSE << >>
             v1 == [v EXCEPT !.size = SubW(@, len)]
             v2 == IF v1.size # 0
                   THEN IF idx = 0
                        THEN [v1 EXCEPT !.start = AddW(@, len), !.data = @ + len]
                        ELSE IF idx < v1.size
                        THEN CloseGap(v1, idx, len)
                        ELSE v1
                   ELSE v1
         IN [ok |-> TRUE, vec |-> v2, out |-> o]
    ELSE [ok |-> TRUE, vec |-> v, out |-> << >>]

_vec2_remove(v, idx, len, hasOut) ==
    IF len > v.size \/ SubW(v.size, len) < idx
    THEN [ok |-> FALSE, vec |-> v, out |-> << >>]
    ELSE IF len # 0
    THEN LET o == IF hasOut THEN MemLoad(v, idx, StoreCount(len)) ELSE << >>
             v0 == IF hasOut
                   THEN [v EXCEPT !.oob = @ \/ ~Inside(v.mem, v.data, VEC2_GET(v, idx), StoreCount(len))]
                   ELSE v
             v1 == [v0 EXCEPT !.size = @ - len]
             v2 == IF v1.size # 0
                   THEN IF idx = 0
                        THEN [v1 EXCEPT !.start = AddW(@, len), !.data = @ + len]
                        ELSE IF idx < v1.size
                        THEN CloseGap(v1, idx, len)
                        ELSE v1
                   ELSE v1
         IN [ok |-> TRUE, vec |-> v2, out |-> o]
    ELSE [ok |-> TRUE, vec |-> v, out |-> << >>]

---------------------------------------------------------------------------
(* _vec2_clear and _vec2_impl_init: memset(vec_ptr, 0, sizeof ...) *)

Zeroed(v) == [v EXCEPT !.size = 0, !.capacity = 0, !.idx0 = 0, !.start = 0,
                       !.data = NULL, !.mem = << >>]

\* A clear that frees the allocation and forgets to reset capacity.
Mutant_clear_keeps_capacity(v) == [Zeroed(v) EXCEPT !.capacity = v.capacity]

\* if (vec2_data(vec_ptr) != NULL) free(...); memset(...)
_vec2_clear(v) == [Zeroed(v) EXCEPT !.frees = IF v.data # NULL THEN @ + 1 ELSE @]

_vec2_impl_init(v) == Ret(TRUE, Zeroed(v))

---------------------------------------------------------------------------
(* The extern functions of cvec2.c.  vec_ptr is never NULL, and neither is val:
   a caller of the model always passes a vec and a run of values. *)

_vec2_impl_reserve(v, additional, M) ==
    IF ~_vec2_impl_valid(v) \/ ElSize = 0 THEN Ret(FALSE, v)
    ELSE _vec2_reserve(v, additional, M)

\* The capacity a successful shrinking realloc leaves recorded.
ShrunkCapacity(v, new_capacity) == v.size

\* A shrink that resets start and data without moving the live elements.
Mutant_shrink_no_compaction(v, grant) ==
    IF ~_vec2_impl_valid(v) \/ ElSize = 0 THEN Ret(FALSE, v)
    ELSE IF v.size = 0 THEN Ret(TRUE, _vec2_clear(v))
    ELSE IF v.size < v.capacity /\ v.capacity > VEC2_INITIAL_CAPACITY
    THEN LET new_capacity == IF v.size > VEC2_INITIAL_CAPACITY
                             THEN v.size ELSE VEC2_INITIAL_CAPACITY
             v1 == [v EXCEPT !.data = vec2_mem(v), !.start = 0, !.allocs = @ + 1]
         IN IF ~grant THEN Ret(FALSE, v1)
            ELSE Ret(TRUE, [v1 EXCEPT !.mem = realloc(v1.mem, new_capacity),
                                      !.data = 0,
                                      !.capacity = ShrunkCapacity(v1, new_capacity)])
    ELSE Ret(TRUE, v)

\* grant: the allocator performs the shrinking realloc.
_vec2_impl_shrink(v, grant) ==
    IF ~_vec2_impl_valid(v) \/ ElSize = 0 THEN Ret(FALSE, v)
    ELSE IF v.size = 0 THEN Ret(TRUE, _vec2_clear(v))
    ELSE IF v.size < v.capacity /\ v.capacity > VEC2_INITIAL_CAPACITY
    THEN LET new_capacity == IF v.size > VEC2_INITIAL_CAPACITY
                             THEN v.size ELSE VEC2_INITIAL_CAPACITY
             v1 == IF v.start > 0
                   THEN [MemMove(v, 0 - v.start, 0, StoreCount(v.size))
                           EXCEPT !.data = vec2_mem(v), !.start = 0]
                   ELSE v
             v2 == [v1 EXCEPT !.allocs = @ + 1]
         IN IF ~grant THEN Ret(FALSE, v2)
            ELSE Ret(TRUE, [v2 EXCEPT !.mem = realloc(v2.mem, new_capacity),
                                      !.data = 0,
                                      !.capacity = ShrunkCapacity(v2, new_capacity)])
    ELSE Ret(TRUE, v)

\* An open of a hole that records the index before it knows the outcome.
Mutant_hole_records_index_early(v, idx, len, M) ==
    LET v1 == [v EXCEPT !.idx0 = idx]
    IN IF ~_vec2_impl_valid(v) \/ len <= 0 \/ ElSize = 0 THEN Ret(FALSE, v1)
       ELSE _vec2_create_hole(v1, idx, len, M)

_vec2_impl_create_hole(v, idx, len, M) ==
    IF ~_vec2_impl_valid(v) \/ len <= 0 \/ ElSize = 0 THEN Ret(FALSE, v)
    ELSE LET r == _vec2_create_hole(v, idx, len, M)
         IN IF ~r.ok THEN r ELSE Ret(TRUE, [r.vec EXCEPT !.idx0 = idx])

\* The three memcpy calls of one chunk: el_size < VEC2_SWAP_SIZE, so the
\* element is exchanged in the single trailing chunk.
SwapSlots(v, first, second) ==
    LET a == VEC2_GET(v, first)
        b == VEC2_GET(v, second)
    IN [v EXCEPT
          !.mem = [i \in 1..Len(v.mem) |->
                     IF i - 1 = a THEN Rd(v.mem, b)
                     ELSE IF i - 1 = b THEN Rd(v.mem, a) ELSE v.mem[i]],
          !.oob = @ \/ ~Inside(v.mem, v.data, a, 1) \/ ~Inside(v.mem, v.data, b, 1)]

_vec2_impl_swap(v, first, second) ==
    IF ~_vec2_impl_valid(v) \/ first >= v.size \/ second >= v.size \/ ElSize = 0
    THEN Ret(FALSE, v)
    ELSE IF first # second THEN Ret(TRUE, SwapSlots(v, first, second))
    ELSE Ret(TRUE, v)

_vec2_impl_assign(v, idx, val, len) ==
    IF ~_vec2_impl_valid(v) \/ ElSize = 0 \/ idx >= v.size \/ SubW(v.size, idx) < len
    THEN Ret(FALSE, v)
    ELSE Ret(TRUE, MemStore(v, idx, val, StoreCount(len)))

\* A remove that releases the allocation once it has emptied the vec.
Mutant_remove_releases_when_empty(v, idx, len, hasOut) ==
    IF ~_vec2_impl_valid(v) \/ ElSize = 0
    THEN [ok |-> FALSE, vec |-> v, out |-> << >>]
    ELSE LET r == _vec2_remove(v, idx, len, hasOut)
         IN IF r.ok /\ r.vec.size = 0
            THEN [r EXCEPT !.vec = _vec2_clear(r.vec)]
            ELSE r

\* A remove that rejects len == 0, as _vec2_impl_create_hole does.
Mutant_remove_rejects_empty(v, idx, len, hasOut) ==
    IF ~_vec2_impl_valid(v) \/ ElSize = 0 \/ len <= 0
    THEN [ok |-> FALSE, vec |-> v, out |-> << >>]
    ELSE _vec2_remove(v, idx, len, hasOut)

_vec2_impl_remove(v, idx, len, hasOut) ==
    IF ~_vec2_impl_valid(v) \/ ElSize = 0
    THEN [ok |-> FALSE, vec |-> v, out |-> << >>]
    ELSE _vec2_remove(v, idx, len, hasOut)

_vec2_impl_insert(v, idx, val, len, M) ==
    IF ~_vec2_impl_valid(v) \/ ElSize = 0 THEN Ret(FALSE, v)
    ELSE IF len > 0
    THEN LET r == _vec2_create_hole(v, idx, len, M)
         IN IF ~r.ok THEN r
            ELSE Ret(TRUE, [MemStore(r.vec, idx, val, StoreCount(len))
                              EXCEPT !.size = AddW(@, len)])
    ELSE Ret(TRUE, v)

\* A clear that frees the allocation and leaves the other fields alone.
Mutant_clear_only_frees(v) ==
    IF _vec2_impl_valid(v) /\ v.data # NULL
    THEN [v EXCEPT !.data = NULL, !.mem = << >>, !.frees = @ + 1]
    ELSE v

_vec2_impl_clear(v) == IF _vec2_impl_valid(v) THEN _vec2_clear(v) ELSE v

---------------------------------------------------------------------------
(* The macros of cvec2.h *)

\* vec2_insert(vec_ptr, idx, val)
vec2_insert(v, idx, val, M) ==
    LET r == _vec2_impl_create_hole(v, idx, 1, M)
    IN IF ~r.ok THEN r
       ELSE Ret(TRUE, [MemStore(r.vec, r.vec.idx0, <<val>>, 1)
                         EXCEPT !.size = AddW(@, 1)])

\* vec2_assign(vec_ptr, idx, val)
vec2_assign(v, idx, val) ==
    IF ~_vec2_impl_valid(v) THEN Ret(FALSE, v)
    ELSE LET v1 == [v EXCEPT !.idx0 = idx]
         IN IF ~(idx < v.size) THEN Ret(FALSE, v1)
            ELSE Ret(TRUE, MemStore(v1, v1.idx0, <<val>>, 1))

\* vec2_pop_multi(vec_ptr, len, out)
vec2_pop_multi(v, len, hasOut) ==
    _vec2_impl_remove(v, SubW(v.size, len), len, hasOut)

\* vec2_shift_multi(vec_ptr, len, out)
vec2_shift_multi(v, len, hasOut) == _vec2_impl_remove(v, 0, len, hasOut)

\* vec2_shift(vec_ptr, out)
vec2_shift(v, hasOut) == vec2_shift_multi(v, 1, hasOut)

\* vec2_unshift(vec_ptr, val)
vec2_unshift(v, val, M) == vec2_insert(v, 0, val, M)

\* vec2_push(vec_ptr, val)
vec2_push(v, val, M) == vec2_insert(v, v.size, val, M)

---------------------------------------------------------------------------
(* The inputs the model draws *)

Marked(run) == {i \in DOMAIN run : run[i] = 2}

\* The runs of values a caller passes: at most MaxRun values, at most one of
\* them marked and only while no slot of the allocation holds the mark, and
\* never growing the vec beyond MaxSize elements.
RunsOf(n) ==
    {run \in [1..n -> Vals] :
        /\ Cardinality(Marked(run)) <= (IF Marked(mem) = {} THEN 1 ELSE 0)}

SmallRuns == UNION {RunsOf(n) : n \in 0..MaxRun}

\* Runs of 1s of the lengths around the widths of the build.
BigLens == {UInt, UInt + 1, Word - 1}

BigRuns == {[i \in 1..n |-> 1] : n \in BigLens}

InsertRuns == {run \in SmallRuns : size + Len(run) <= MaxSize} \cup BigRuns

ReserveArgs == {0, 1, MaxCap, Word \div ElSize, Word - 1}

RemoveLens == 0..MaxRun

\* The growth amounts the retry loop of _vec2_create_hole asks
\* _vec2_reserve for, from addition down, when every request is refused.
RECURSIVE RetryAmounts(_, _)
RetryAmounts(addition, len) ==
    {addition} \cup
        (IF addition > len /\ (addition \div 2) < len
         THEN RetryAmounts(ToUInt(len), len)
         ELSE IF (addition \div 2) < len THEN {}
         ELSE RetryAmounts(addition \div 2, len))

\* The allocator's limits that tell apart the outcomes of one call: 0 (every
\* request refused) and each capacity up to MaxCap the call can ask for.
Granting(asked) == {0} \cup {n \in asked : n <= MaxCap}

ReserveLimits(additional) == Granting({AddW(capacity, additional)})

InsertLimits(len) ==
    IF len > 0 /\ AddW(size, len) > capacity
    THEN LET addition == GrowAddition(FirstAddition(Vec), len, UInt)
         IN IF addition = Diverges THEN {0}
            ELSE Granting({AddW(capacity, a) : a \in RetryAmounts(addition, len)})
    ELSE {0}

---------------------------------------------------------------------------
(* The state machine: one action per call of the interface *)

Init ==
    /\ size = 0 /\ capacity = 0 /\ start = 0 /\ data = NULL
    /\ mem = << >>
    /\ ret = TRUE /\ fault = "none"

\* What a call's result says went wrong in it.
FaultOf(r) == IF r.vec.hang THEN "hang" ELSE IF r.vec.oob THEN "oob" ELSE "none"

\* The slots outside the live range keep their bytes in the program, but no
\* call is specified to read them: the model forgets them, so that a call
\* that does read one shows Junk where it put the value.
Forget(v) ==
    [i \in 1..Len(v.mem) |->
        IF v.data # NULL /\ i - 1 >= v.data /\ i - 1 < v.data + v.size
        THEN v.mem[i] ELSE Junk]

\* A call returned r.ok and left r.vec.  Undefined behaviour and a
\* call that never returns end the behaviour: no call follows them.
Do(r) ==
    /\ fault = "none"
    /\ size' = r.vec.size
    /\ capacity' = r.vec.capacity
    /\ start' = r.vec.start
    /\ data' = r.vec.data
    /\ mem' = Forget(r.vec)
    /\ ret' = (r.ok /\ ~r.vec.hang)
    /\ fault' = FaultOf(r)

VecInit == Do(_vec2_impl_init(Vec))

Reserve(additional, M) == Do(_vec2_impl_reserve(Vec, additional, M))

ShrinkToFit(grant) == Do(_vec2_impl_shrink(Vec, grant))

Insert(idx, val, M) == Do(vec2_insert(Vec, idx, val, M))

InsertMulti(idx, val, M) ==
    Do(_vec2_impl_insert(Vec, idx, val, Len(val), M))

Remove(idx, len, hasOut) == Do(_vec2_impl_remove(Vec, idx, len, hasOut))

PopMulti(len, hasOut) == Do(vec2_pop_multi(Vec, len, hasOut))

Swap(first, second) == Do(_vec2_impl_swap(Vec, first, second))

Assign(idx, val) == Do(vec2_assign(Vec, idx, val))

AssignMulti(idx, val) == Do(_vec2_impl_assign(Vec, idx, val, Len(val)))

Clear == Do(Ret(TRUE, _vec2_impl_clear(Vec)))

Next ==
    \/ VecInit
    \/ \E additional \in ReserveArgs :
          \E M \in ReserveLimits(additional) : Reserve(additional, M)
    \/ \E grant \in BOOLEAN : ShrinkToFit(grant)
    \/ \E idx \in 0..(size + 1), run \in {r \in InsertRuns : Len(r) = 1} :
          \E M \in InsertLimits(1) : Insert(idx, run[1], M)
    \/ \E idx \in 0..(size + 1), val \in InsertRuns :
          \E M \in InsertLimits(Len(val)) : InsertMulti(idx, val, M)
    \/ \E idx \in 0..(size + 1), len \in RemoveLens, hasOut \in BOOLEAN :
          Remove(idx, len, hasOut)
    \/ \E len \in RemoveLens, hasOut \in BOOLEAN : PopMulti(len, hasOut)
    \/ \E first \in 0..size, second \in 0..size : Swap(first, second)
    \/ \E idx \in 0..size, run \in RunsOf(1) : Assign(idx, run[1])
    \/ \E idx \in 0..size, val \in SmallRuns : AssignMulti(idx, val)
    \/ Clear

Spec == Init /\ [][Next]_vars

---------------------------------------------------------------------------
(* What the claims speak of *)

\* X[0:k] + v + X[k:]
Splice(X, k, v) == SubSeq(X, 1, k) \o v \o SubSeq(X, k + 1, Len(X))

\* X[0:idx] + X[idx+len:]
Cut(X, idx, len) == SubSeq(X, 1, idx) \o SubSeq(X, idx + len + 1, Len(X))

\* X[idx:idx+len]
Slice(X, idx, len) == SubSeq(X, idx + 1, idx + len)

Max(a, b) == IF a >= b THEN a ELSE b

\* The non-empty runs a claim about insertion is tried on.
TestRuns == UNION {[1..n -> Vals] : n \in 1..MaxRun}

\* The lengths a claim about a gap or a growth amount is tried on.
TestLens == (0..MaxRun) \cup BigLens

\* One run of each of these lengths but 0: a call that fails stores no value.
FillRuns == {[i \in 1..n |-> 1] : n \in TestLens \ {0}}

\* The front, the middle, the end, past the end, and the largest index.
SomeIdx == {0, size \div 2, size, size + 1, Word - 1}

\* size, capacity, start and the logical content of v are those of the state.
SameBuffer(v) ==
    /\ v.size = size
    /\ v.capacity = capacity
    /\ v.start = start
    /\ ContentOf(v) = Content

\* The call returned (it neither ran into undefined behaviour nor hung).
Returned(r) == ~r.vec.oob /\ ~r.vec.hang

---------------------------------------------------------------------------
(* C1: a successful insert_multi(k, v) with 0 <= k <= len(X) and v not empty
   leaves the content X[0:k] + v + X[k:] and the size len(X) + len(v). *)
C1_InsertSplices ==
    fault = "none" =>
        \A k \in 0..size, v \in TestRuns :
            \A M \in InsertLimits(Len(v)) :
            LET r == _vec2_impl_insert(Vec, k, v, Len(v), M)
            IN r.ok =>
                 /\ ContentOf(r.vec) = Splice(Content, k, v)
                 /\ r.vec.size = size + Len(v)

(* C2: after every call start + size <= capacity. *)
C2_LiveRangeInsideCapacity == start + size <= capacity

(* C3: after every call size <= capacity, and no size or capacity
   computation wraps: the growth amount open_gap computes for an accepted
   len is never less than len. *)
C3_SizeWithinCapacityNoWrap ==
    /\ size <= capacity
    /\ fault = "none" =>
         \A len \in TestLens :
            (len > 0 /\ AddW(size, len) >= size /\ AddW(size, len) > capacity) =>
                LET addition == GrowAddition(FirstAddition(Vec), len, UInt)
                IN addition # Diverges => addition >= len

(* C4: after every call capacity = 0 exactly when data = NULL. *)
C4_CapacityZeroIffNull == (capacity = 0) <=> (data = NULL)

C4_Witness ==
    /\ ret /\ fault = "none"
    /\ capacity > 0 /\ data # NULL /\ size > 0

(* C5: every call returns: no call runs forever. *)
C5_EveryCallReturns == fault # "hang"

(* C6: a successful insert_multi(k, v) followed by remove(k, len(v), out)
   restores the content X and leaves out = v. *)
C6_InsertRemoveRoundTrip ==
    fault = "none" =>
        \A k \in 0..size, v \in TestRuns :
            \A M \in InsertLimits(Len(v)) :
            LET r1 == _vec2_impl_insert(Vec, k, v, Len(v), M)
                r2 == _vec2_impl_remove(r1.vec, k, Len(v), TRUE)
            IN (r1.ok /\ Returned(r1)) =>
                 /\ r2.ok
                 /\ ContentOf(r2.vec) = Content
                 /\ r2.out = v

(* C7: remove(idx, len, out) with len >= 1 and idx + len <= len(X) succeeds,
   leaves the content X[0:idx] + X[idx+len:], decreases size by len and, with
   out given, sets out to X[idx:idx+len]. *)
C7_RemoveCuts ==
    fault = "none" =>
        \A idx \in 0..size, len \in 1..size, hasOut \in BOOLEAN :
            idx + len <= size =>
                LET r == _vec2_impl_remove(Vec, idx, len, hasOut)
                IN /\ r.ok
                   /\ Returned(r)
                   /\ ContentOf(r.vec) = Cut(Content, idx, len)
                   /\ r.vec.size = size - len
                   /\ hasOut => r.out = Slice(Content, idx, len)

(* C8: when reserve, open_gap or insert returns failure, size, capacity,
   start and the content are what they were before the call. *)
C8_FailureChangesNothing ==
    fault = "none" =>
        /\ \A additional \in ReserveArgs :
              \A M \in ReserveLimits(additional) :
                 LET r == _vec2_impl_reserve(Vec, additional, M)
                 IN (~r.ok /\ Returned(r)) => SameBuffer(r.vec)
        /\ \A idx \in SomeIdx, len \in TestLens :
              \A M \in InsertLimits(len) :
                 LET r == _vec2_impl_create_hole(Vec, idx, len, M)
                 IN (~r.ok /\ Returned(r)) => SameBuffer(r.vec)
        /\ \A idx \in SomeIdx, val \in Vals :
              \A M \in InsertLimits(1) :
                 LET r == vec2_insert(Vec, idx, val, M)
                 IN (~r.ok /\ Returned(r)) => SameBuffer(r.vec)
        /\ \A idx \in SomeIdx, v \in FillRuns :
              \A M \in InsertLimits(Len(v)) :
                 LET r == _vec2_impl_insert(Vec, idx, v, Len(v), M)
                 IN (~r.ok /\ Returned(r)) => SameBuffer(r.vec)

C8_Witness ==
    /\ ~ret /\ fault = "none"
    /\ size > 0
    /\ \E idx \in 0..size, v \in FillRuns :
          LET r == _vec2_impl_insert(Vec, idx, v, Len(v), 0)
          IN ~r.ok /\ Returned(r) /\ r.vec.allocs > 1

(* C9: when shrink_to_fit fails because the allocator refuses, size,
   capacity, start and the content are what they were before the call. *)
C9_ShrinkFailureChangesNothing ==
    fault = "none" =>
        LET r == _vec2_impl_shrink(Vec, FALSE)
        IN ~r.ok => SameBuffer(r.vec)

(* C10: a successful shrink_to_fit with size > 0 and
   capacity > max(size, INITIAL_CAPACITY) leaves
   capacity = max(size, INITIAL_CAPACITY). *)
C10_ShrinkToMinimum ==
    fault = "none" =>
        LET r == _vec2_impl_shrink(Vec, TRUE)
        IN (size > 0 /\ capacity > Max(size, VEC2_INITIAL_CAPACITY)) =>
             /\ r.ok
             /\ r.vec.capacity = Max(size, VEC2_INITIAL_CAPACITY)

\* No field of v and no slot of its allocation differs from the state.
Untouched(v) ==
    /\ SameBuffer(v)
    /\ v.data = data
    /\ v.mem = mem
    /\ v.allocs = 0
    /\ v.frees = 0

(* C11: shrink_to_fit on a non-empty vec leaves size and the content as they
   were, whether it succeeds or fails; when it reallocates successfully start
   becomes 0; with capacity <= max(size, INITIAL_CAPACITY) it succeeds and
   changes nothing. *)
C11_ShrinkKeepsContent ==
    (fault = "none" /\ size > 0) =>
        \A grant \in BOOLEAN :
            LET r == _vec2_impl_shrink(Vec, grant)
            IN /\ Returned(r)
               /\ r.vec.size = size
               /\ ContentOf(r.vec) = Content
               /\ (r.ok /\ r.vec.allocs > 0) => r.vec.start = 0
               /\ capacity <= Max(size, VEC2_INITIAL_CAPACITY) =>
                     r.ok /\ Untouched(r.vec)

C11_Witness ==
    /\ fault = "none" /\ ret
    /\ size > 1 /\ start > 0 /\ capacity > VEC2_INITIAL_CAPACITY
    /\ _vec2_impl_shrink(Vec, TRUE).vec.allocs > 0

\* The amounts at the edges of the two overflow tests of reserve, for the
\* capacity of the state.
EdgeArgs ==
    {(Word \div ElSize) - capacity - 1, (Word \div ElSize) - capacity,
     Word \div ElSize, Word - capacity - 1, Word - capacity, Word - 1}
        \cap (0..(Word - 1))

\* An allocator that refuses everything, and one that grants everything.
AnyAllocator == {0, Word - 1}

(* C12: reserve(additional) with additional > capacity - size fails, calls no
   allocator and leaves size, capacity, start and the content as they were
   whenever capacity + additional, or (capacity + additional) * element_size,
   wraps modulo 2^w. *)
C12_ReserveOverflowFails ==
    fault = "none" =>
        \A additional \in EdgeArgs \cup ReserveArgs, M \in AnyAllocator :
            (/\ additional > capacity - size
             /\ \/ capacity + additional >= Word
                \/ (capacity + additional) * ElSize >= Word) =>
                LET r == _vec2_impl_reserve(Vec, additional, M)
                IN ~r.ok /\ Untouched(r.vec)

C12_Witness ==
    /\ fault = "none" /\ ~ret
    /\ size > 0 /\ start > 0
    /\ \E additional \in ReserveArgs :
          /\ capacity + additional < Word
          /\ (capacity + additional) * ElSize >= Word
          /\ ~_vec2_impl_reserve(Vec, additional, Word - 1).ok

(* C13: a successful reserve(additional) leaves size, start and the content
   as they were; with additional <= capacity - size it reallocates nothing
   and leaves capacity as it was, otherwise the new capacity is
   capacity + additional. *)
C13_ReserveSuccessFrame ==
    fault = "none" =>
        \A additional \in EdgeArgs \cup ReserveArgs :
            \A M \in AnyAllocator \cup ReserveLimits(additional) :
                LET r == _vec2_impl_reserve(Vec, additional, M)
                IN r.ok =>
                     /\ Returned(r)
                     /\ r.vec.size = size
                     /\ r.vec.start = start
                     /\ ContentOf(r.vec) = Content
                     /\ additional <= capacity - size => Untouched(r.vec)
                     /\ additional > capacity - size =>
                           r.vec.capacity = capacity + additional

\* The indices and lengths a claim about arguments out of range is tried on.
EdgeIdx == (0..(size + 1)) \cup {Word - 1}

EdgeLens == (0..(size + 1)) \cup BigLens

(* C14: remove(idx, len, out) fails exactly when len > size or
   idx > size - len, and then leaves the vec and out as they were; with
   len = 0 and idx <= size it succeeds and changes nothing. *)
C14_RemoveFailsExactly ==
    fault = "none" =>
        \A idx \in SomeIdx, len \in EdgeLens, hasOut \in BOOLEAN :
            LET r == _vec2_impl_remove(Vec, idx, len, hasOut)
            IN /\ ~r.ok <=> (len > size \/ idx > size - len)
               /\ ~r.ok => (Untouched(r.vec) /\ r.out = << >>)
               /\ (len = 0 /\ idx <= size) =>
                     (r.ok /\ Untouched(r.vec) /\ r.out = << >>)

C14_Witness ==
    /\ fault = "none" /\ ~ret
    /\ size > 1 /\ start > 0
    /\ ~_vec2_impl_remove(Vec, size - 1, 2, TRUE).ok
    /\ _vec2_impl_remove(Vec, size, 0, TRUE).ok

(* C15: _vec2_impl_create_hole(idx, len) fails if len = 0, if idx > size or
   if size + len wraps modulo 2^w, and then size, capacity, start, the
   content and the recorded index _idx[0] are as they were; a successful one
   leaves size as it was.  The allocator grants every request, so that a
   failure is one of the arguments. *)
C15_HoleRejectsBadArguments ==
    fault = "none" =>
        \A idx \in SomeIdx, len \in TestLens \cup {Word - size} :
            LET r == _vec2_impl_create_hole(Vec, idx, len % Word, Word - 1)
            IN /\ (len % Word = 0 \/ idx > size \/ size + (len % Word) >= Word) =>
                     /\ ~r.ok
                     /\ Untouched(r.vec)
                     /\ r.vec.idx0 = Vec.idx0
               /\ r.ok => r.vec.size = size

C15_Witness ==
    /\ fault = "none" /\ ~ret
    /\ size > 0 /\ start > 0
    /\ ~_vec2_impl_create_hole(Vec, size + 1, 1, Word - 1).ok
    /\ ~_vec2_impl_create_hole(Vec, size, Word - size, Word - 1).ok
    /\ _vec2_impl_create_hole(Vec, size, 1, Word - 1).ok

\* The state VEC2_INITIALIZER and vec2_init leave.
IsZeroed(v) == v.size = 0 /\ v.capacity = 0 /\ v.start = 0 /\ v.data = NULL

(* C16: clear, and shrink_to_fit on a vec of size 0, leave the zeroed state
   (size = 0, capacity = 0, start = 0, data = NULL); clear on a cleared vec
   changes nothing and frees nothing. *)
C16_ClearZeroes ==
    fault = "none" =>
        LET c == _vec2_impl_clear(Vec)
            cc == _vec2_impl_clear(c)
        IN /\ IsZeroed(c) /\ ~c.oob
           /\ c.frees = (IF data # NULL THEN 1 ELSE 0)
           /\ IsZeroed(cc) /\ cc.frees = c.frees /\ cc.mem = c.mem
           /\ IsZeroed(Vec) => Untouched(c)
           /\ size = 0 =>
                 \A grant \in BOOLEAN :
                     LET r == _vec2_impl_shrink(Vec, grant)
                     IN r.ok /\ Returned(r) /\ IsZeroed(r.vec)

C16_Witness ==
    /\ fault = "none" /\ ret
    /\ size = 0 /\ capacity > 0 /\ start > 0 /\ data # NULL

\* X with the elements at the 0-based indices i and j exchanged.
Exchanged(X, i, j) ==
    [k \in 1..Len(X) |->
        IF k = i + 1 THEN X[j + 1] ELSE IF k = j + 1 THEN X[i + 1] ELSE X[k]]

(* C17: swap(i, j) fails without a change if i >= size or j >= size,
   succeeds without a change if i = j, and otherwise succeeds and exchanges
   exactly the elements at i and j, leaving the other elements, size,
   capacity and start as they were; the same swap applied twice restores the
   content. *)
C17_SwapExchanges ==
    fault = "none" =>
        \A i \in EdgeIdx, j \in EdgeIdx :
            LET r == _vec2_impl_swap(Vec, i, j)
                rr == _vec2_impl_swap(r.vec, i, j)
            IN /\ (i >= size \/ j >= size) => (~r.ok /\ Untouched(r.vec))
               /\ (i < size /\ j < size /\ i = j) => (r.ok /\ Untouched(r.vec))
               /\ (i < size /\ j < size /\ i # j) =>
                     /\ r.ok /\ Returned(r)
                     /\ ContentOf(r.vec) = Exchanged(Content, i, j)
                     /\ r.vec.size = size
                     /\ r.vec.capacity = capacity
                     /\ r.vec.start = start
                     /\ rr.ok /\ ContentOf(rr.vec) = Content

\* X with the elements from the 0-based index idx on replaced by those of v.
Overwritten(X, idx, v) ==
    [k \in 1..Len(X) |->
        IF k > idx /\ k <= idx + Len(v) THEN v[k - idx] ELSE X[k]]

(* C18: assign(idx, values, len) fails without a change if idx >= size or
   len > size - idx; a successful one overwrites exactly the slots
   [idx, idx + len) with values and leaves the other elements, size,
   capacity and start as they were. *)
C18_AssignOverwrites ==
    fault = "none" =>
        \A idx \in EdgeIdx, v \in TestRuns \cup BigRuns \cup {<< >>} :
            LET r == _vec2_impl_assign(Vec, idx, v, Len(v))
            IN IF idx >= size \/ Len(v) > size - idx
               THEN ~r.ok /\ Untouched(r.vec)
               ELSE /\ r.ok /\ Returned(r)
                    /\ ContentOf(r.vec) = Overwritten(Content, idx, v)
                    /\ r.vec.size = size
                    /\ r.vec.capacity = capacity
                    /\ r.vec.start = start

\* The capacities the calls of each kind leave, made from the state.
CapacityAfterRemove ==
    {_vec2_impl_remove(Vec, idx, len, hasOut).vec.capacity :
        idx \in SomeIdx, len \in EdgeLens, hasOut \in BOOLEAN}
    \cup {vec2_pop_multi(Vec, len, hasOut).vec.capacity :
             len \in TestLens, hasOut \in BOOLEAN}
    \cup {vec2_shift_multi(Vec, len, hasOut).vec.capacity :
             len \in TestLens, hasOut \in BOOLEAN}

CapacityAfterGrowth ==
    UNION {{_vec2_impl_reserve(Vec, additional, M).vec.capacity :
               M \in AnyAllocator} :
           additional \in EdgeArgs \cup ReserveArgs}
    \cup UNION {{_vec2_impl_insert(Vec, idx, v, Len(v), M).vec.capacity :
                    idx \in {0, size, size + 1}, M \in AnyAllocator} :
                v \in FillRuns}
    \cup {vec2_insert(Vec, idx, 1, M).vec.capacity :
             idx \in SomeIdx, M \in AnyAllocator}

CapacityAfterStore ==
    {_vec2_impl_swap(Vec, i, j).vec.capacity : i \in SomeIdx, j \in SomeIdx}
    \cup {_vec2_impl_assign(Vec, idx, v, Len(v)).vec.capacity :
             idx \in SomeIdx, v \in FillRuns \cup {<< >>}}
    \cup {vec2_assign(Vec, idx, 1).vec.capacity : idx \in SomeIdx}

(* C19: no call of a vec's life other than shrink_to_fit and clear leaves a
   smaller capacity than it found, and no remove (nor pop, nor shift),
   successful or failed, changes capacity.  vec2_init creates the vec: it is
   where a life starts, not a call in it. *)
C19_CapacityOnlyShrinksByShrinkOrClear ==
    fault = "none" =>
        /\ \A c \in CapacityAfterRemove : c = capacity
        /\ \A c \in CapacityAfterGrowth \cup CapacityAfterStore : c >= capacity

C19_Witness ==
    /\ fault = "none" /\ ret
    /\ size > 0 /\ start > 0 /\ capacity > VEC2_INITIAL_CAPACITY
    /\ _vec2_impl_remove(Vec, 0, size, FALSE).ok

(* C20: on a non-empty vec a front pop (shift) of one element moves no
   element, and the front push (unshift) that directly follows a successful
   front pop moves no element and reallocates nothing. *)
C20_FrontPopPushMoveNothing ==
    (fault = "none" /\ size > 0) =>
        \A hasOut \in BOOLEAN, val \in Vals, M \in AnyAllocator :
            LET p == vec2_shift(Vec, hasOut)
                u == vec2_unshift(p.vec, val, M)
            IN /\ p.ok
               /\ p.vec.moved = 0
               /\ u.ok
               /\ u.vec.moved = 0
               /\ u.vec.allocs = 0

C20_Witness ==
    /\ fault = "none" /\ ret
    /\ size > 1 /\ start > 0 /\ start + size <= capacity
    /\ vec2_unshift(vec2_shift(Vec, TRUE).vec, 1, 0).ok

\* The first value >= len of the sequence a, 2a + a/2, ..., or len itself
\* once a step of the sequence no longer fits the unsigned int that holds it.
RECURSIVE FirstAtLeast(_, _, _)
FirstAtLeast(a, len, fuel) ==
    IF a >= len THEN a
    ELSE IF fuel = 0 THEN Diverges
    ELSE LET n == 2 * a + (a \div 2)
         IN IF n >= UInt THEN len ELSE FirstAtLeast(n, len, fuel - 1)

(* C21: when open_gap needs growth (size + len > capacity) and its first
   reservation succeeds, capacity grows by exactly addition, the first value
   >= len of a0 = (capacity # 0 ? capacity / 2 : INITIAL_CAPACITY),
   a(n+1) = 2 a(n) + a(n) / 2, or len if a step of the sequence would wrap;
   the capacity it leaves is >= size + len. *)
C21_GrowthAmount ==
    fault = "none" =>
        \A len \in (1..UInt) \cup BigLens :
            (size + len < Word /\ size + len > capacity) =>
                \A M \in AnyAllocator \cup InsertLimits(len) :
                    LET r == _vec2_impl_create_hole(Vec, size, len, M)
                        a0 == IF capacity # 0 THEN capacity \div 2
                              ELSE VEC2_INITIAL_CAPACITY
                        addition == FirstAtLeast(a0, len, UInt)
                    IN (r.ok /\ r.vec.allocs <= 1 /\ ~r.vec.hang) =>
                          /\ r.vec.capacity = capacity + addition
                          /\ r.vec.capacity >= size + len

\* The growth amounts of RetryAmounts in the order the retry loop asks for
\* them.
RECURSIVE RetryOrder(_, _)
RetryOrder(addition, len) ==
    <<addition>> \o
        (IF addition > len /\ (addition \div 2) < len
         THEN RetryOrder(ToUInt(len), len)
         ELSE IF (addition \div 2) < len THEN << >>
         ELSE RetryOrder(addition \div 2, len))

StrictlyDecreasing(s) == \A i \in 1..(Len(s) - 1) : s[i] > s[i + 1]

\* The allocator's limits around the request of exactly len more slots.
LimitsAround(len) ==
    {0, capacity + len - 1, capacity + len, Word - 1} \cap (0..(Word - 1))

(* C22: under an allocator that grants a reallocation exactly when the slot
   count asked for is at most M, an insert that needs growth succeeds if and
   only if capacity + len <= M and neither capacity + len nor its byte count
   wraps: the retry loop asks for strictly decreasing growth amounts and its
   last request before it reports failure is for exactly len more slots. *)
C22_InsertSucceedsIffGranted ==
    fault = "none" =>
        \A v \in FillRuns :
            LET len == Len(v)
            IN (size + len < Word /\ size + len > capacity) =>
                  /\ \A idx \in {0, size}, M \in LimitsAround(len) :
                        LET r == _vec2_impl_insert(Vec, idx, v, len, M)
                        IN (r.ok /\ ~r.vec.hang) <=>
                              /\ capacity + len <= M
                              /\ (capacity + len) * ElSize < Word
                  /\ LET addition == GrowAddition(FirstAddition(Vec), len, UInt)
                         asked == RetryOrder(addition, len)
                     IN addition # Diverges =>
                           /\ StrictlyDecreasing(asked)
                           /\ asked[Len(asked)] = len

(* C23: on a non-empty vec open_gap moves no element in its two fast paths:
   (a) with idx = 0 and start >= len, start decreases by exactly len and
   capacity is as it was; (b) with idx = size and
   capacity - (start + size) >= len, start, capacity and the content are as
   they were. *)
C23_FastPathsMoveNothing ==
    (fault = "none" /\ size > 0) =>
        \A len \in TestLens \ {0}, M \in AnyAllocator :
            /\ start >= len =>
                  LET r == _vec2_impl_create_hole(Vec, 0, len, M)
                  IN /\ r.ok /\ Returned(r)
                     /\ r.vec.moved = 0
                     /\ r.vec.start = start - len
                     /\ r.vec.capacity = capacity
            /\ capacity - (start + size) >= len =>
                  LET r == _vec2_impl_create_hole(Vec, size, len, M)
                  IN /\ r.ok /\ Returned(r)
                     /\ r.vec.moved = 0
                     /\ SameBuffer(r.vec)

\* open_gap(idx, len) takes neither of its two fast paths, with grown the
\* capacity once the growth is done.
OnShiftPath(idx, len, grown) ==
    /\ ~(idx = 0 /\ start >= len)
    /\ ~(idx = size /\ grown - (start + size) >= len)

(* C24: on the shift path of open_gap (a non-empty vec, neither fast path)
   start decreases by shift_back, the whole start if idx = size or
   len > start and exactly len otherwise; an interior insert with
   0 < idx < size and len <= start moves only the prefix [0, idx), back by
   len, and after the write the content is X[0:idx] + v + X[idx:]. *)
C24_ShiftPath ==
    (fault = "none" /\ size > 0) =>
        \A idx \in 0..size, v \in TestRuns, M \in AnyAllocator :
            LET len == Len(v)
                shift_back == IF idx = size \/ len > start THEN start ELSE len
                h == _vec2_impl_create_hole(Vec, idx, len, M)
                r == _vec2_impl_insert(Vec, idx, v, len, M)
            IN /\ (h.ok /\ OnShiftPath(idx, len, h.vec.capacity)) =>
                     h.vec.start = start - shift_back
               /\ (0 < idx /\ idx < size /\ len <= start /\ r.ok) =>
                     /\ Returned(r)
                     /\ h.vec.moved = idx
                     /\ r.vec.start = start - len
                     /\ ContentOf(r.vec) = Splice(Content, idx, v)

(* C25: a successful remove(0, len) that leaves the vec non-empty increases
   start by exactly len and moves no element; a remove of a run that ends at
   the old end of the vec (idx + len = size) moves no element and leaves
   start as it was. *)
C25_RemoveAtEndsMovesNothing ==
    fault = "none" =>
        \A len \in 0..size, hasOut \in BOOLEAN :
            /\ (len > 0 /\ len < size) =>
                  LET r == _vec2_impl_remove(Vec, 0, len, hasOut)
                  IN /\ r.ok
                     /\ r.vec.start = start + len
                     /\ r.vec.data = data + len
                     /\ r.vec.moved = 0
            /\ LET r == _vec2_impl_remove(Vec, size - len, len, hasOut)
               IN /\ r.ok
                  /\ r.vec.start = start
                  /\ r.vec.data = data
                  /\ r.vec.moved = 0

C25_Witness ==
    /\ fault = "none" /\ ret
    /\ size > 2 /\ start > 0
    /\ _vec2_impl_remove(Vec, 0, size - 1, TRUE).vec.size = 1
    /\ _vec2_impl_remove(Vec, 0, size, TRUE).vec.size = 0
    /\ _vec2_impl_remove(Vec, 1, size - 1, TRUE).vec.size = 1

(* C26: no call reads, writes or moves an element outside the slots
   [0, capacity) of the allocation, in any state the program reaches and for
   any arguments it accepts; so a front insert of len elements into a vec of
   one element with start = 0 and capacity = 1 + len stays inside them.  The
   allocation holds at least capacity slots, so an access outside the
   allocation is one outside [0, capacity). *)
C26_MemorySafety ==
    /\ fault # "oob"
    /\ (fault = "none" /\ size = 1 /\ start = 0) =>
          \A v \in TestRuns, M \in AnyAllocator :
              capacity = 1 + Len(v) =>
                  ~_vec2_impl_insert(Vec, 0, v, Len(v), M).vec.oob

---------------------------------------------------------------------------
(* The vec used as a queue: from the empty vec, only pushes at the end and
   shifts from the front, under an allocator that grants every request. *)

\* The longest queue the model builds: long enough to outgrow the first
\* allocation of VEC2_INITIAL_CAPACITY slots.
MaxQueue == 9

Push(val) == size < MaxQueue /\ Do(vec2_push(Vec, val, Word - 1))

Shift(hasOut) == Do(vec2_shift(Vec, hasOut))

QueueNext ==
    \/ \E run \in RunsOf(1) : Push(run[1])
    \/ \E hasOut \in BOOLEAN : Shift(hasOut)

QueueSpec == Init /\ [][QueueNext]_vars

(* C27: used as a FIFO queue from the empty vec (pushes of one element at the
   end and shifts of one element from the front in any order, every
   allocation granted), a push appends its value to the content, a shift
   takes the first element of the content away and returns it, and a shift
   on the empty vec fails and changes nothing: so the content is always the
   elements pushed and not yet shifted, in the order of their pushes, and a
   shift returns the oldest of them. *)
C27_QueueIsFifo ==
    /\ fault = "none"
    /\ \A val \in Vals :
          LET r == vec2_push(Vec, val, Word - 1)
          IN /\ r.ok /\ Returned(r)
             /\ ContentOf(r.vec) = Append(Content, val)
    /\ \A hasOut \in BOOLEAN :
          LET r == vec2_shift(Vec, hasOut)
          IN IF size = 0
             THEN ~r.ok /\ Untouched(r.vec) /\ r.out = << >>
             ELSE /\ r.ok /\ Returned(r)
                  /\ ContentOf(r.vec) = Tail(Content)
                  /\ hasOut => r.out = <<Head(Content)>>

C27_Witness ==
    /\ fault = "none" /\ ret
    /\ size > 1 /\ start > 0 /\ capacity > VEC2_INITIAL_CAPACITY
    /\ start + size = capacity
    /\ Content[1] = 2
    /\ vec2_push(Vec, 1, Word - 1).vec.moved = size

---------------------------------------------------------------------------
\* The runs of at most n values a claim about reserved room is tried on.
RunsWithin(n) == {v \in FillRuns : Len(v) <= n}

(* C28: after a successful reserve(n) no insert or remove that keeps the size
   within n of the size at the time of the reserve calls the allocator (there
   is no shrink_to_fit and no clear in between), so none of these inserts
   fails for want of memory.  A successful reserve(n) leaves
   capacity >= size + n; an insert that fits the capacity succeeds under an
   allocator that refuses every request, asks it for nothing and leaves the
   capacity as it was; and so does every remove: by induction the room
   reserved lasts for as long as the size stays within it. *)
C28_ReservedRoomNeedsNoAllocator ==
    fault = "none" =>
        /\ \A n \in ReserveArgs, M \in AnyAllocator :
              LET r == _vec2_impl_reserve(Vec, n, M)
              IN r.ok =>
                    /\ r.vec.capacity >= size + n
                    /\ \A idx \in {0, size}, v \in RunsWithin(n) :
                          LET i == _vec2_impl_insert(r.vec, idx, v, Len(v), 0)
                          IN /\ i.ok
                             /\ i.vec.allocs = r.vec.allocs
                             /\ i.vec.capacity = r.vec.capacity
        /\ \A idx \in {0, size \div 2, size}, v \in RunsWithin(capacity - size) :
              LET i == _vec2_impl_insert(Vec, idx, v, Len(v), 0)
              IN i.ok /\ i.vec.allocs = 0 /\ i.vec.capacity = capacity
        /\ \A idx \in {0, size \div 2, size}, len \in RemoveLens :
              LET d == _vec2_impl_remove(Vec, idx, len, FALSE)
              IN d.vec.allocs = 0 /\ d.vec.capacity = capacity

C28_Witness ==
    /\ fault = "none" /\ ret
    /\ size > 0 /\ start > 0 /\ capacity = size
    /\ LET r == _vec2_impl_reserve(Vec, MaxRun, Word - 1)
       IN /\ r.ok /\ r.vec.allocs = 1
          /\ _vec2_impl_insert(r.vec, 1, [k \in 1..MaxRun |-> 1], MaxRun, 0).ok

(* C29: pop_multi(len), and pop (len = 1), on a vec with len > size, the
   empty vec included, fails and leaves size, capacity, start and the content
   as they were, although the macro passes the index size - len, which has
   wrapped around modulo 2^w. *)
C29_PopBeyondSizeFails ==
    fault = "none" =>
        \A len \in EdgeLens, hasOut \in BOOLEAN :
            len > size =>
                LET r == vec2_pop_multi(Vec, len, hasOut)
                IN /\ SubW(size, len) = Word + size - len
                   /\ ~r.ok
                   /\ Untouched(r.vec)
                   /\ r.out = << >>

C29_Witness ==
    /\ fault = "none" /\ ~ret
    /\ size > 1 /\ start > 0
    /\ ~vec2_pop_multi(Vec, size + 1, TRUE).ok
    /\ vec2_pop_multi(Vec, size, TRUE).ok

====
